---- MODULE Spec2Model ----
(***************************************************************************)
(* TrainingLoop of pytorch_lightning/loops/training_loop.py: the loop that *)
(* runs over all batches of a dataloader (one epoch), driven by Loop.run.  *)
(* Python lists, dicts, Result objects and None are tagged records, so     *)
(* that values of different shapes can be compared.                        *)
(***************************************************************************)
EXTENDS Integers, Sequences, FiniteSets, TLC

\* ------------------------------------------------------------------ bounds
MaxBatches == 3       \* longest dataloader, largest num_training_batches and max_steps
MaxEpochs == 2        \* epochs run by the enclosing controller
MaxValIdx == 99       \* largest batch index given to should_check_val_fx
MaxOptimizers == 3    \* most optimizers in an input of _prepare_outputs
MaxTbptt == 2         \* most tbptt splits of a batch in an input of _prepare_outputs

\* --------------------------------------------------------- program constants
SkipSignal == -1      \* batch_output.signal that ends the epoch early
NoMaxSteps == -1      \* trainer.max_steps is None
Inf == -2             \* float("inf")

\* ------------------------------------------------------------ Python values
NoneV == [k |-> "None"]
List(s) == [k |-> "list", v |-> s]
EmptyList == List(<<>>)
Result(b, o, t, r) ==
    [k |-> "Result", minimize |-> b, extra |-> <<o, t>>, should_reduce_on_epoch_end |-> r]
Event(name, b, arg) == [ev |-> name, b |-> b, arg |-> arg]
NoError == "no exception"

\* a % b of Python for a >= 0, b > 0 or b = float("inf")
PyMod(a, b) == IF b = Inf THEN a ELSE a % b

VARIABLES
    trainer,            \* the trainer's configuration read by the loop
    model,              \* which hooks the LightningModule overrides
    should_stop,        \* trainer.should_stop
    current_epoch,      \* trainer.current_epoch
    global_step,        \* self.global_step, read back as trainer.global_step
    total_batch_idx,    \* self.total_batch_idx
    batch_idx,          \* self.batch_idx
    is_last_batch,      \* self.is_last_batch
    dataloader_idx,     \* self._dataloader_idx
    skip_remaining,     \* self._skip_remaining_steps
    dl_pos,             \* position of the iterator self._train_dataloader
    has_trained,        \* trainer.checkpoint_connector.has_trained
    phase,              \* trainer.training / trainer.validating
    pc,                 \* where Loop.run stands
    ret,                \* value returned by the last advance
    outputs,            \* the list Loop.run collects the advance results in
    result,             \* what run returned, raised, or NoneV while running
    calls,              \* calls the latest handler made to its collaborators, in order
    vargs,              \* arguments of a function that is called on its own
    vres                \* its result

loopvars == <<should_stop, current_epoch, global_step, total_batch_idx, batch_idx,
              is_last_batch, dataloader_idx, skip_remaining, dl_pos, has_trained,
              phase, pc, ret, outputs, result, calls>>
vars == <<trainer, model, loopvars, vargs, vres>>

\* ------------------------------------------------- _prepare_outputs (262-312)
\* out = tbptt_output.extra; out['loss'] = tbptt_output.minimize
ResultToDict(r) == [k |-> "dict", extra |-> r.extra, loss |-> r.minimize]

\* the loop over the tbptt steps of one batch, and the collapse of one step
ProcessTbptt(batch_outputs) ==
    LET processed == [i \in 1..Len(batch_outputs.v) |-> ResultToDict(batch_outputs.v[i])]
    IN  IF Len(processed) = 1 THEN processed[1] ELSE List(processed)

\* the loop over the batches of one optimizer
ProcessOptimizer(opt_outputs, batch_mode) ==
    LET batches == IF batch_mode THEN <<opt_outputs>> ELSE opt_outputs.v
        processed == [i \in 1..Len(batches) |-> ProcessTbptt(batches[i])]
    IN  IF batch_mode THEN processed[1] ELSE List(processed)

\* mutant: the edge case of the empty optimizer output is not handled
_prepare_outputs_KeepsEmpty(outs, batch_mode) ==
    LET processed == [i \in 1..Len(outs.v) |-> ProcessOptimizer(outs.v[i], batch_mode)]
    IN  IF Len(processed) = 1 THEN processed[1] ELSE List(processed)

_prepare_outputs(outs, batch_mode) ==
    LET kept == SelectSeq(outs.v, LAMBDA o : Len(o.v) # 0)
        processed == [i \in 1..Len(kept) |-> ProcessOptimizer(kept[i], batch_mode)]
    IN  IF Len(processed) = 1 THEN processed[1] ELSE List(processed)

\* tbptt_output.extra on what the innermost loop reaches. Only a Result has the
\* attribute: iterating a dict gives its keys and iterating a key its
\* characters, and a str has no attribute extra.
TbpttRaises(batch_outputs) ==
    IF batch_outputs.k # "list" THEN TRUE
    ELSE \E i \in 1..Len(batch_outputs.v) : batch_outputs.v[i].k # "Result"

OptimizerRaises(opt_outputs, batch_mode) ==
    IF opt_outputs.k # "list" THEN TRUE
    ELSE IF Len(opt_outputs.v) = 0 THEN FALSE
    ELSE IF batch_mode THEN TbpttRaises(opt_outputs)
    ELSE \E i \in 1..Len(opt_outputs.v) : TbpttRaises(opt_outputs.v[i])

\* the exception _prepare_outputs raises on these outputs, or NoError
PrepareOutputsRaises(outs, batch_mode) ==
    IF outs.k # "list" THEN "AttributeError"
    ELSE IF \E i \in 1..Len(outs.v) : OptimizerRaises(outs.v[i], batch_mode)
         THEN "AttributeError"
    ELSE NoError

\* ----------------------------------- track_epoch_end_reduce_metrics (239-260)
hook_overridden == model.training_epoch_end \/ model.on_train_epoch_end

\* whether the output of one optimizer is kept for the end of the epoch
ShouldTrack(opt_outputs) ==
    LET sample_output == opt_outputs.v[Len(opt_outputs.v)]
        auto_reduce_tng_result ==
            sample_output.k = "Result" /\ sample_output.should_reduce_on_epoch_end
    IN  hook_overridden \/ auto_reduce_tng_result

\* with 1 step (no tbptt) don't use a sequence at epoch end
Unwrap(opt_outputs) ==
    IF Len(opt_outputs.v) = 1 /\ opt_outputs.v[1].k # "Result"
    THEN opt_outputs.v[1] ELSE opt_outputs

\* epoch_output[opt_idx].append(opt_outputs), opt_idx counted from 1 here;
\* a missing bucket is Python's IndexError
RECURSIVE TrackFrom(_, _, _)
TrackFrom(epoch_output, batch_end_outputs, opt_idx) ==
    IF opt_idx > Len(batch_end_outputs) THEN [raised |-> NoError, epoch_output |-> epoch_output]
    ELSE IF ~ShouldTrack(batch_end_outputs[opt_idx])
         THEN TrackFrom(epoch_output, batch_end_outputs, opt_idx + 1)
    ELSE IF opt_idx > Len(epoch_output.v)
         THEN [raised |-> "IndexError", epoch_output |-> epoch_output]
    ELSE TrackFrom(
            List([epoch_output.v EXCEPT ![opt_idx] =
                     List(Append(@.v, Unwrap(batch_end_outputs[opt_idx])))]),
            batch_end_outputs, opt_idx + 1)

track_epoch_end_reduce_metrics(epoch_output, batch_end_outputs) ==
    TrackFrom(epoch_output, batch_end_outputs, 1)

\* ---------------------------------------------- should_check_val_fx (332-344)
\* mutant: the conditional expression binds only the last operand of the "or"
should_check_val_fx_Precedence(b_idx, is_last, on_epoch, stop, epoch, t) ==
    LET is_val_check_batch == PyMod(b_idx + 1, t.val_check_batch) = 0
        is_val_check_epoch == (epoch + 1) % t.check_val_every_n_epoch = 0
        can_check_val == t.enable_validation /\ is_val_check_epoch
        is_last_batch_for_infinite_dataset == is_last /\ t.val_check_batch = Inf
        epoch_end_val_check == PyMod(b_idx + 1, t.num_training_batches) = 0
        should_check_val ==
            \/ is_val_check_batch /\ epoch_end_val_check
            \/ stop
            \/ IF on_epoch THEN is_last_batch_for_infinite_dataset
               ELSE is_val_check_batch /\ ~epoch_end_val_check
    IN  should_check_val /\ can_check_val

should_check_val_fx(b_idx, is_last, on_epoch, stop, epoch, t) ==
    LET is_val_check_batch == PyMod(b_idx + 1, t.val_check_batch) = 0
        is_val_check_epoch == (epoch + 1) % t.check_val_every_n_epoch = 0
        can_check_val == t.enable_validation /\ is_val_check_epoch
        is_last_batch_for_infinite_dataset == is_last /\ t.val_check_batch = Inf
        epoch_end_val_check == PyMod(b_idx + 1, t.num_training_batches) = 0
        should_check_val ==
            IF on_epoch
            THEN (is_val_check_batch /\ epoch_end_val_check) \/ stop
                     \/ is_last_batch_for_infinite_dataset
            ELSE is_val_check_batch /\ ~epoch_end_val_check
    IN  should_check_val /\ can_check_val

\* --------------------------------------------------- boundaries of the epoch
\* BatchLoop._accumulated_batches_reached, also called on self by done
_accumulated_batches_reached ==
    (batch_idx + 1) % trainer.accumulate_grad_batches = 0

_num_training_batches_reached(is_last) ==
    batch_idx = trainer.num_training_batches \/ is_last

\* mutant: the schedulers are updated with every batch
ShouldUpdateLr_EveryBatch == TRUE

\* update_train_loop_lr_schedulers (314-320): is_last_batch is left at its default
ShouldUpdateLr == _accumulated_batches_reached \/ _num_training_batches_reached(FALSE)

\* mutant: the global step advances with every batch
ShouldIncrementGlobalStep_Always == TRUE

\* increment_accumulated_grad_global_step (322-330): the same two calls
ShouldIncrementGlobalStep ==
    _accumulated_batches_reached \/ _num_training_batches_reached(FALSE)

\* accelerator.update_global_step(total_batch_idx, current_global_step)
update_global_step(total, current) == current + 1

\* ------------------------------------------------------------ done (112-131)
MaxStepsReached ==
    /\ trainer.max_steps # NoMaxSteps
    /\ trainer.max_steps <= global_step + 1
    /\ _accumulated_batches_reached

\* mutant: total_batch_idx += 1 moved above the should_stop test
DoneReturnsEarly_CountsBeforeStop == MaxStepsReached

\* the two early returns of done, which come before total_batch_idx += 1
DoneReturnsEarly == MaxStepsReached \/ should_stop

\* mutant: the should_stop test left out
done_IgnoresShouldStop == MaxStepsReached \/ _num_training_batches_reached(is_last_batch)

done == DoneReturnsEarly \/ _num_training_batches_reached(is_last_batch)

\* ------------------------------------------------------------ collaborators
\* what BatchLoop.run may return for batch b: the signal, and per optimizer the
\* Results of its tbptt splits (none for an optimizer that did not run)
BatchOutput(sig, b, ran) ==
    [signal |-> sig,
     training_step_output_for_epoch_end |->
        [o \in 1..trainer.num_optimizers |->
            IF o \in ran
            THEN List([t \in 1..trainer.tbptt_steps |-> Result(b, o, t, trainer.reduce)])
            ELSE EmptyList]]

RanSets ==
    IF trainer.skip_optimizers THEN SUBSET (1..trainer.num_optimizers)
    ELSE {1..trainer.num_optimizers}

BatchOutputs(b) ==
    {BatchOutput(0, b, ran) : ran \in RanSets} \cup {BatchOutput(SkipSignal, b, {})}

\* the dataloader iterator yields (batch_idx, (batch, is_last)), is_last on its
\* last batch, and raises StopIteration after it
Exhausted(pos) == pos >= trainer.dataloader_len
NextItem(pos) == [batch_idx |-> pos, is_last |-> pos = trainer.dataloader_len - 1]

\* ----------------------------------------------- on_train_batch_end (220-237)
NonEmpty(batch_end_outputs) == SelectSeq(batch_end_outputs, LAMBDA o : Len(o.v) # 0)

\* the calls on_train_batch_end makes before tracking the outputs
BatchEndHooks(batch_end_outputs, b) ==
    << Event("on_train_batch_end", b, _prepare_outputs(List(NonEmpty(batch_end_outputs)), TRUE)),
       Event("on_batch_end", b, NoneV) >>

\* ------------------------------------------------------- advance (53-86)
\* mutant: the signal is not looked at
IsSkip_Never(batch_output) == FALSE

IsSkip(batch_output) == batch_output.signal = SkipSignal

\* Loop.run: what follows advance
AfterAdvance(raised) == IF raised = NoError THEN "on_advance_end" ELSE "raised"

\* Loop.run: an exhausted dataloader ends the loop, on_run_end follows
AfterStopIteration == "on_run_end"

\* Loop.run: the value on_advance_end returns is collected for on_run_end
Collect(outs, output) == Append(outs, output)

\* BatchLoop.run raises when training_step returned what it cannot use
BatchLoopRaises ==
    IF model.invalid_manual_step THEN "MisconfigurationException" ELSE NoError

\* nothing around the call of batch_loop.run handles an exception
Propagated(exc) == exc

AdvanceRaised(exc) ==
    /\ batch_idx' = NextItem(dl_pos).batch_idx
    /\ is_last_batch' = NextItem(dl_pos).is_last
    /\ dl_pos' = dl_pos + 1
    /\ calls' = << Event("batch_loop.run", dl_pos, [k |-> "raised", v |-> exc]) >>
    /\ pc' = AfterAdvance(Propagated(exc))
    /\ result' = [k |-> "raised", v |-> Propagated(exc)]
    /\ UNCHANGED <<skip_remaining, ret>>

AdvanceBatch(batch_output) ==
    LET b == dl_pos
        beo == batch_output.training_step_output_for_epoch_end
        called == << Event("batch_loop.run", b,
                           [k |-> "signal", v |-> batch_output.signal, out |-> beo]) >>
        tracked == track_epoch_end_reduce_metrics(List(<<EmptyList>>), NonEmpty(beo))
    IN  /\ batch_idx' = NextItem(dl_pos).batch_idx
        /\ is_last_batch' = NextItem(dl_pos).is_last
        /\ dl_pos' = dl_pos + 1
        /\ IF IsSkip(batch_output)
           THEN /\ skip_remaining' = TRUE
                /\ ret' = NoneV
                /\ calls' = called
                /\ pc' = AfterAdvance(NoError)
                /\ UNCHANGED result
           ELSE IF tracked.raised # NoError
           THEN /\ calls' = called \o BatchEndHooks(beo, b) \o
                            << Event("track_epoch_end_reduce_metrics raised", b,
                                     tracked.epoch_output) >>
                /\ pc' = AfterAdvance(tracked.raised)
                /\ result' = [k |-> "raised", v |-> tracked.raised]
                /\ UNCHANGED <<skip_remaining, ret>>
           ELSE /\ calls' = called \o BatchEndHooks(beo, b) \o
                            << Event("logger_connector.on_train_batch_end", b, NoneV),
                               Event("log_train_step_metrics", b, tracked.epoch_output) >>
                /\ ret' = tracked.epoch_output
                /\ pc' = AfterAdvance(NoError)
                /\ UNCHANGED <<skip_remaining, result>>

\* next(self._train_dataloader) on an exhausted iterator raises StopIteration
Advance ==
    /\ pc = "advance"
    /\ IF Exhausted(dl_pos)
       THEN /\ pc' = AfterStopIteration
            /\ UNCHANGED <<batch_idx, is_last_batch, dl_pos, skip_remaining, ret, calls, result>>
       ELSE IF BatchLoopRaises # NoError
       THEN AdvanceRaised(BatchLoopRaises)
       ELSE \E batch_output \in BatchOutputs(dl_pos) : AdvanceBatch(batch_output)
    /\ UNCHANGED <<trainer, model, should_stop, current_epoch, global_step, total_batch_idx,
                   dataloader_idx, has_trained, phase, outputs, vargs, vres>>

\* ------------------------------------------------- on_run_start (43-51)
\* mutant: the batch index is not reset
OnRunStart_KeepsBatchIdx ==
    /\ pc = "on_run_start"
    /\ dl_pos' = 0
    /\ dataloader_idx' = 0
    /\ is_last_batch' = FALSE
    /\ outputs' = <<>>
    /\ calls' = <<>>
    /\ pc' = "done"
    /\ UNCHANGED <<trainer, model, should_stop, current_epoch, global_step, total_batch_idx,
                   batch_idx, skip_remaining, has_trained, phase, ret, result, vargs, vres>>

\* mutant: the counters that live across epochs are reset with the others
OnRunStart_ResetsCounters ==
    /\ pc = "on_run_start"
    /\ dl_pos' = 0
    /\ dataloader_idx' = 0
    /\ batch_idx' = 0
    /\ is_last_batch' = FALSE
    /\ total_batch_idx' = 0
    /\ global_step' = 0
    /\ outputs' = <<>>
    /\ calls' = <<>>
    /\ pc' = "done"
    /\ UNCHANGED <<trainer, model, should_stop, current_epoch,
                   skip_remaining, has_trained, phase, ret, result, vargs, vres>>

OnRunStart ==
    /\ pc = "on_run_start"
    /\ dl_pos' = 0
    /\ dataloader_idx' = 0
    /\ batch_idx' = 0
    /\ is_last_batch' = FALSE
    /\ outputs' = <<>>
    /\ calls' = <<>>
    /\ pc' = "done"
    /\ UNCHANGED <<trainer, model, should_stop, current_epoch, global_step, total_batch_idx,
                   skip_remaining, has_trained, phase, ret, result, vargs, vres>>

\* ------------------------------------------------- the done property (112-131)
\* Loop.run: while not self.done
AfterDone(d) == IF d THEN "on_run_end" ELSE "advance"

Done ==
    /\ pc = "done"
    /\ total_batch_idx' = IF DoneReturnsEarly THEN total_batch_idx ELSE total_batch_idx + 1
    /\ pc' = AfterDone(done)
    /\ UNCHANGED <<trainer, model, should_stop, current_epoch, global_step, batch_idx,
                   is_last_batch, dataloader_idx, skip_remaining, dl_pos, has_trained,
                   phase, ret, outputs, result, calls, vargs, vres>>

\* ------------------------------------------------- on_advance_end (88-110)
\* save_loggers_on_train_batch_end (346-350)
ShouldSaveLoggers(should_flush_logs) ==
    should_flush_logs /\ trainer.is_global_zero /\ trainer.has_logger

\* mutant: the predicate is evaluated as it is for the end of the epoch
ShouldCheckVal_OnEpoch ==
    should_check_val_fx(batch_idx, is_last_batch, TRUE, should_stop, current_epoch, trainer)

ShouldCheckVal ==
    should_check_val_fx(batch_idx, is_last_batch, FALSE, should_stop, current_epoch, trainer)

OnAdvanceEndCalls(should_flush_logs) ==
    (IF ShouldCheckVal
     THEN << Event("validating", batch_idx, NoneV), Event("_run_evaluation", batch_idx, NoneV),
             Event("training", batch_idx, NoneV) >>
     ELSE <<>>)
    \o (IF ShouldSaveLoggers(should_flush_logs)
        THEN << Event("logger.save", batch_idx, NoneV) >> ELSE <<>>)
    \o (IF ShouldUpdateLr
        THEN << Event("update_learning_rates", batch_idx, NoneV) >> ELSE <<>>)
    \o (IF ShouldIncrementGlobalStep
        THEN << Event("update_global_step", batch_idx, NoneV) >> ELSE <<>>)

OnAdvanceEnd ==
    /\ pc = "on_advance_end"
    /\ \E should_flush_logs \in BOOLEAN :
          calls' = OnAdvanceEndCalls(should_flush_logs)
    /\ phase' = IF ShouldCheckVal THEN "training" ELSE phase
    /\ has_trained' = TRUE
    /\ global_step' = IF ShouldIncrementGlobalStep
                      THEN update_global_step(total_batch_idx, global_step)
                      ELSE global_step
    /\ outputs' = Collect(outputs, ret)
    /\ pc' = "done"
    /\ UNCHANGED <<trainer, model, should_stop, current_epoch, total_batch_idx, batch_idx,
                   is_last_batch, dataloader_idx, skip_remaining, dl_pos, ret, result,
                   vargs, vres>>

\* -------------------------------------- _on_train_epoch_end_hook (174-214)
\* mutant: the accelerator's hook is called whether or not the model overrides
_on_train_epoch_end_hook_NoElif(processed_epoch_output) ==
    (IF trainer.has_hook
     THEN << Event("trainer.on_train_epoch_end", batch_idx, processed_epoch_output) >>
     ELSE <<>>)
    \o (IF model.on_train_epoch_end
        THEN IF model.outputs_in_signature
             THEN << Event("warn", batch_idx, NoneV),
                     Event("model.on_train_epoch_end", batch_idx, processed_epoch_output) >>
             ELSE << Event("model.on_train_epoch_end", batch_idx, NoneV) >>
        ELSE <<>>)
    \o (IF trainer.accelerator_has_hook
        THEN << Event("accelerator.on_train_epoch_end", batch_idx, NoneV) >>
        ELSE <<>>)
    \o (IF ~trainer.reset_result_skip
        THEN << Event("_cache_logged_metrics", batch_idx, NoneV) >> ELSE <<>>)

_on_train_epoch_end_hook(processed_epoch_output) ==
    (IF trainer.has_hook
     THEN << Event("trainer.on_train_epoch_end", batch_idx, processed_epoch_output) >>
     ELSE <<>>)
    \o (IF model.on_train_epoch_end
        THEN IF model.outputs_in_signature
             THEN << Event("warn", batch_idx, NoneV),
                     Event("model.on_train_epoch_end", batch_idx, processed_epoch_output) >>
             ELSE << Event("model.on_train_epoch_end", batch_idx, NoneV) >>
        ELSE IF trainer.accelerator_has_hook
             THEN << Event("accelerator.on_train_epoch_end", batch_idx, NoneV) >>
             ELSE <<>>)
    \o (IF ~trainer.reset_result_skip
        THEN << Event("_cache_logged_metrics", batch_idx, NoneV) >> ELSE <<>>)

\* ------------------------------------------------- on_run_end (134-168)
\* outputs = outputs[0] on the list Loop.run collected, then _prepare_outputs:
\* the exception the first lines raise, or NoneV
OnRunEndRaises ==
    IF Len(outputs) = 0 THEN "IndexError"
    ELSE IF outputs[1] = NoneV THEN "TypeError"
    ELSE NoError

\* the value handed to training_epoch_end and to the hooks
ProcessedOutputs == _prepare_outputs(outputs[1], FALSE)

\* mutant: the return value is not checked
EpochEndReturnOk_Unchecked(returned_none) == TRUE

\* training_epoch_end expects a return of None
EpochEndReturnOk(returned_none) == returned_none

OnRunEndCalls(returned_none) ==
    IF OnRunEndRaises = "IndexError" THEN <<>>
    ELSE << Event("logger_connector.on_train_epoch_end", batch_idx, NoneV) >> \o
         IF OnRunEndRaises # NoError THEN <<>>
         ELSE (IF model.training_epoch_end
               THEN << Event("training_epoch_end", batch_idx, ProcessedOutputs),
                       Event("training_epoch_end returned", batch_idx,
                             IF returned_none THEN NoneV ELSE [k |-> "value"]) >>
               ELSE <<>>) \o
              IF model.training_epoch_end /\ ~EpochEndReturnOk(returned_none) THEN <<>>
              ELSE (IF model.training_epoch_end
                    THEN << Event("cache_logged_metrics", batch_idx, NoneV) >>
                    ELSE <<>>) \o
                   _on_train_epoch_end_hook(ProcessedOutputs) \o
                   << Event("on_epoch_end", batch_idx, NoneV) >>

OnRunEndResult(returned_none) ==
    IF OnRunEndRaises # NoError THEN [k |-> "raised", v |-> OnRunEndRaises]
    ELSE IF model.training_epoch_end /\ ~EpochEndReturnOk(returned_none)
         THEN [k |-> "raised", v |-> "MisconfigurationException"]
    ELSE [k |-> "returned", v |-> ProcessedOutputs]

\* what training_epoch_end may return: None, or something else
EpochEndReturns == IF model.training_epoch_end THEN BOOLEAN ELSE {TRUE}

OnRunEnd ==
    /\ pc = "on_run_end"
    /\ \E returned_none \in EpochEndReturns :
          /\ calls' = OnRunEndCalls(returned_none)
          /\ result' = OnRunEndResult(returned_none)
          /\ pc' = IF OnRunEndResult(returned_none).k = "raised" THEN "raised" ELSE "finished"
    /\ UNCHANGED <<trainer, model, should_stop, current_epoch, global_step, total_batch_idx,
                   batch_idx, is_last_batch, dataloader_idx, skip_remaining, dl_pos,
                   has_trained, phase, ret, outputs, vargs, vres>>

\* ------------------------------------------------------------ environment
\* The loop is single-threaded: trainer.should_stop is set by a hook or callback
\* that runs inside advance (seen here once advance has returned) or inside
\* on_advance_end, or before the loop starts (seen before done is evaluated).
SetShouldStop ==
    /\ pc \in {"on_advance_end", "done"}
    /\ ~should_stop
    /\ should_stop' = TRUE
    /\ UNCHANGED <<trainer, model, current_epoch, global_step, total_batch_idx, batch_idx,
                   is_last_batch, dataloader_idx, skip_remaining, dl_pos, has_trained,
                   phase, pc, ret, outputs, result, calls, vargs, vres>>

\* the enclosing controller runs the loop again for the next epoch
NextEpoch ==
    /\ pc = "finished"
    /\ ~should_stop
    /\ current_epoch + 1 < MaxEpochs
    /\ current_epoch' = current_epoch + 1
    /\ result' = NoneV
    /\ pc' = "on_run_start"
    /\ UNCHANGED <<trainer, model, should_stop, global_step, total_batch_idx, batch_idx,
                   is_last_batch, dataloader_idx, skip_remaining, dl_pos, has_trained,
                   phase, ret, outputs, calls, vargs, vres>>

\* ------------------------------------------------------------ configurations
Trainers ==
    [ max_steps : {NoMaxSteps} \cup (1..MaxBatches),
      num_training_batches : 1..MaxBatches,
      dataloader_len : 0..MaxBatches,
      accumulate_grad_batches : {1, 2},
      val_check_batch : {1, 2},
      check_val_every_n_epoch : {2},
      enable_validation : {TRUE},
      num_optimizers : {1},
      skip_optimizers : {FALSE},
      tbptt_steps : {1},
      reduce : {FALSE},
      is_global_zero : {TRUE},
      has_logger : {TRUE},
      has_hook : {TRUE},
      accelerator_has_hook : {TRUE},
      reset_result_skip : {FALSE} ]

Models ==
    [ training_epoch_end : BOOLEAN,
      on_train_epoch_end : {FALSE},
      outputs_in_signature : {FALSE},
      invalid_manual_step : {FALSE} ]

\* ------------------------------------------------- __init__ (16-35), connect
InitLoop ==
    /\ should_stop = FALSE
    /\ current_epoch = 0
    /\ global_step = 0
    /\ total_batch_idx = 0
    /\ batch_idx = 0
    /\ is_last_batch = NoneV
    /\ dataloader_idx = NoneV
    /\ skip_remaining = FALSE
    /\ dl_pos = 0
    /\ has_trained = FALSE
    /\ phase = "training"
    /\ pc = "on_run_start"
    /\ ret = NoneV
    /\ outputs = <<>>
    /\ result = NoneV
    /\ calls = <<>>

Init ==
    /\ trainer \in Trainers
    /\ model \in Models
    /\ InitLoop
    /\ vargs = NoneV
    /\ vres = FALSE

Next ==
    \/ OnRunStart
    \/ Done
    \/ Advance
    \/ OnAdvanceEnd
    \/ OnRunEnd
    \/ SetShouldStop
    \/ NextEpoch

Spec == Init /\ [][Next]_vars

\* ------------------------------------------- should_check_val_fx on its own
ValTrainers ==
    [ val_check_batch : {1, 2, 3, 10, Inf},
      check_val_every_n_epoch : {1, 2},
      enable_validation : BOOLEAN,
      num_training_batches : {1, 2, 10, 100, Inf} ]

ValArgs ==
    [ batch_idx : 0..MaxValIdx,
      is_last_batch : BOOLEAN,
      on_epoch : BOOLEAN,
      should_stop : BOOLEAN,
      current_epoch : {0, 1},
      called : {FALSE} ]

InitVal ==
    /\ trainer \in ValTrainers
    /\ model \in {m \in Models : ~m.training_epoch_end}
    /\ InitLoop
    /\ vargs \in ValArgs
    /\ vres = FALSE

CallShouldCheckVal ==
    /\ ~vargs.called
    /\ vres' = should_check_val_fx(vargs.batch_idx, vargs.is_last_batch, vargs.on_epoch,
                                   vargs.should_stop, vargs.current_epoch, trainer)
    /\ vargs' = [vargs EXCEPT !.called = TRUE]
    /\ UNCHANGED <<trainer, model, loopvars>>

NextVal == CallShouldCheckVal

SpecVal == InitVal /\ [][NextVal]_vars

\* --------------------------------------------- _prepare_outputs on its own
\* outputs of the documented shape [optimizer outs][batch outs][tbptt steps]:
\* optimizer o has count[o] batches of tbptt splits each (batch mode: one
\* batch without the batch dimension, or no output at all)
PrepBatch(b, o, tbptt) == List([t \in 1..tbptt |-> Result(b, o, t, FALSE)])

PrepOutputs(count, tbptt, batch_mode) ==
    List([o \in DOMAIN count |->
            IF count[o] = 0 THEN EmptyList
            ELSE IF batch_mode THEN PrepBatch(0, o, tbptt)
            ELSE List([b \in 1..count[o] |-> PrepBatch(b - 1, o, tbptt)])])

\* how many batches each of n optimizers has
PrepCounts(batch_mode) ==
    UNION { [1..n -> 0..(IF batch_mode THEN 1 ELSE MaxBatches)] : n \in 1..MaxOptimizers }

PrepArgs ==
    UNION { { [outputs |-> PrepOutputs(count, tbptt, batch_mode), batch_mode |-> batch_mode,
               collapsed |-> NoneV, fed_back |-> FALSE, called |-> FALSE] :
                count \in PrepCounts(batch_mode), tbptt \in 1..MaxTbptt } :
            batch_mode \in BOOLEAN }

InitPrep ==
    /\ trainer = NoneV
    /\ model = NoneV
    /\ InitLoop
    /\ vargs \in PrepArgs
    /\ vres = NoneV

PrepareResult(outs, batch_mode) ==
    IF PrepareOutputsRaises(outs, batch_mode) # NoError
    THEN [k |-> "raised", v |-> PrepareOutputsRaises(outs, batch_mode)]
    ELSE [k |-> "returned", v |-> _prepare_outputs(outs, batch_mode)]

CallPrepareOutputs ==
    /\ ~vargs.called
    /\ vres' = PrepareResult(vargs.outputs, vargs.batch_mode)
    /\ vargs' = [vargs EXCEPT !.called = TRUE]
    /\ UNCHANGED <<trainer, model, loopvars>>

\* the value returned is given to _prepare_outputs again, in epoch mode
FeedBack ==
    /\ vargs.called /\ ~vargs.fed_back
    /\ vres.k = "returned"
    /\ vres' = PrepareResult(vres.v, FALSE)
    /\ vargs' = [vargs EXCEPT !.collapsed = vres.v, !.fed_back = TRUE]
    /\ UNCHANGED <<trainer, model, loopvars>>

NextPrep ==
    \/ CallPrepareOutputs
    \/ FeedBack

SpecPrep == InitPrep /\ [][NextPrep]_vars

\* ------------------- the loop with a training_step BatchLoop cannot use
\* manual optimization, and training_step returns what is neither a Tensor,
\* a dict with extras, nor None
ManualTrainers ==
    { t \in Trainers : t.accumulate_grad_batches = 1 /\ t.val_check_batch = 1
                          /\ t.max_steps \in {NoMaxSteps, 1} }

ManualModels ==
    [ training_epoch_end : BOOLEAN,
      on_train_epoch_end : {FALSE},
      outputs_in_signature : {FALSE},
      invalid_manual_step : BOOLEAN ]

InitManual ==
    /\ trainer \in ManualTrainers
    /\ model \in ManualModels
    /\ InitLoop
    /\ vargs = NoneV
    /\ vres = FALSE

SpecManual == InitManual /\ [][Next]_vars

\* ------------- the loop with several optimizers, tbptt splits and reduction
OutTrainers ==
    [ max_steps : {NoMaxSteps},
      num_training_batches : {MaxBatches},
      dataloader_len : 0..MaxBatches,
      accumulate_grad_batches : {1},
      val_check_batch : {2},
      check_val_every_n_epoch : {2},
      enable_validation : {TRUE},
      num_optimizers : 1..MaxOptimizers,
      skip_optimizers : BOOLEAN,
      tbptt_steps : 1..MaxTbptt,
      reduce : BOOLEAN,
      is_global_zero : {TRUE},
      has_logger : {TRUE},
      has_hook : {TRUE},
      accelerator_has_hook : {TRUE},
      reset_result_skip : {FALSE} ]

OutModels ==
    [ training_epoch_end : BOOLEAN,
      on_train_epoch_end : BOOLEAN,
      outputs_in_signature : {FALSE},
      invalid_manual_step : {FALSE} ]

InitOut ==
    /\ trainer \in OutTrainers
    /\ model \in OutModels
    /\ InitLoop
    /\ vargs = NoneV
    /\ vres = FALSE

SpecOut == InitOut /\ [][Next]_vars

\* ------------------------------- the loop with every combination of hooks
HookTrainers ==
    [ max_steps : {NoMaxSteps},
      num_training_batches : {MaxBatches},
      dataloader_len : 0..MaxBatches,
      accumulate_grad_batches : {1},
      val_check_batch : {2},
      check_val_every_n_epoch : {2},
      enable_validation : {TRUE},
      num_optimizers : {1},
      skip_optimizers : {FALSE},
      tbptt_steps : {1},
      reduce : {FALSE},
      is_global_zero : {TRUE},
      has_logger : {TRUE},
      has_hook : BOOLEAN,
      accelerator_has_hook : BOOLEAN,
      reset_result_skip : BOOLEAN ]

\* "outputs" can only be in the signature of a hook the model defines
HookModels ==
    { m \in [ training_epoch_end : BOOLEAN,
              on_train_epoch_end : BOOLEAN,
              outputs_in_signature : BOOLEAN,
              invalid_manual_step : {FALSE} ] :
          m.outputs_in_signature => m.on_train_epoch_end }

InitHooks ==
    /\ trainer \in HookTrainers
    /\ model \in HookModels
    /\ InitLoop
    /\ vargs = NoneV
    /\ vres = FALSE

SpecHooks == InitHooks /\ [][Next]_vars

\* ================================================================ properties
\* the calls of the latest handler that have the given name
CallsNamed(name) == SelectSeq(calls, LAMBDA e : e.ev = name)

\* BatchLoop returned the skip signal for a batch of the epoch that is running
SkippedAt(i) == i \in 1..Len(outputs) /\ outputs[i] = NoneV
SkipInEpoch ==
    \/ \E i \in 1..Len(outputs) : SkippedAt(i)
    \/ pc = "on_advance_end" /\ ret = NoneV

\* the epoch is past on_run_start, so that dl_pos counts the batches it pulled
InEpoch == pc \in {"done", "advance", "on_advance_end", "on_run_end", "finished"}

\* C1: without skip signal (and with neither should_stop nor a max-step bound in
\* play) the epoch pulls no batch once num_training_batches batches are consumed
\* or the dataloader reported its last batch, and does not end before that.
C1_EpochEndsAtBatchLimit ==
    (InEpoch /\ ~SkipInEpoch /\ ~should_stop /\ trainer.max_steps = NoMaxSteps
        /\ trainer.dataloader_len > 0)
    => /\ dl_pos <= trainer.num_training_batches
       /\ dl_pos <= trainer.dataloader_len
       /\ pc \in {"on_run_end", "finished"}
            => (dl_pos >= trainer.num_training_batches \/ is_last_batch)

\* C2 as stated: every evaluation of done adds one to total_batch_idx.
C2_EveryDoneEvaluationCounts ==
    [][(pc = "done" /\ pc' # "done") => total_batch_idx' = total_batch_idx + 1]_vars

\* C2 amended: an evaluation of done adds one to total_batch_idx unless it
\* returns True for max steps or for should_stop, and then it adds nothing.
C2_DoneCountsUnlessEarlyReturn ==
    [][(pc = "done" /\ pc' # "done") =>
         LET max_steps_hit ==
                 /\ trainer.max_steps # NoMaxSteps
                 /\ global_step + 1 >= trainer.max_steps
                 /\ (batch_idx + 1) % trainer.accumulate_grad_batches = 0
         IN  total_batch_idx' =
                 IF max_steps_hit \/ should_stop THEN total_batch_idx
                 ELSE total_batch_idx + 1]_vars

\* one batch ran, done counted once, and the second evaluation saw should_stop
C2_Witness ==
    /\ pc = "on_run_end" /\ should_stop /\ trainer.max_steps = NoMaxSteps
    /\ dl_pos = 1 /\ Len(outputs) = 1 /\ total_batch_idx = 1 /\ current_epoch = 0

\* C3: the epoch ends with the batch that carried the skip signal: no later
\* batch is pulled from the dataloader (stated for the batches within the batch
\* limit, where only the skip signal could end the epoch).
C3_SkipEndsEpoch ==
    (pc # "on_run_start" /\ dl_pos <= trainer.num_training_batches)
    => \A i \in 1..Len(outputs) : SkippedAt(i) => dl_pos = i

\* C4: a batch whose BatchLoop result carries the skip signal sets the skip
\* flag and makes advance return None after the BatchLoop call alone: no batch-end
\* hook, no tracking of outputs, no logging of step metrics.
C4_SkipRunsNoBatchEndWork ==
    (pc = "on_advance_end" /\ calls[1].arg.v = SkipSignal)
    => /\ skip_remaining
       /\ ret = NoneV
       /\ Len(calls) = 1
       /\ \A name \in {"on_train_batch_end", "on_batch_end", "log_train_step_metrics",
                       "logger_connector.on_train_batch_end"} : CallsNamed(name) = <<>>

C4_Witness ==
    /\ pc = "on_advance_end" /\ calls[1].arg.v = SkipSignal
    /\ batch_idx = 1 /\ Len(outputs) = 1 /\ outputs[1] # NoneV

\* C5: the global step changes only in on_advance_end, and only for a batch that
\* is an accumulation boundary or with which the batches of the epoch are used up.
C5_GlobalStepOnlyOnBoundary ==
    [][global_step' # global_step =>
         /\ pc = "on_advance_end" /\ pc' = "done"
         /\ global_step' = global_step + 1
         /\ \/ (batch_idx + 1) % trainer.accumulate_grad_batches = 0
            \/ dl_pos >= trainer.num_training_batches
            \/ is_last_batch]_vars

\* two batches accumulated into one step
C5_Witness ==
    /\ pc = "done" /\ trainer.accumulate_grad_batches = 2
    /\ dl_pos = 2 /\ global_step = 1 /\ current_epoch = 0

\* C6: with a max-step bound, and neither should_stop nor the batch limit, done
\* is true exactly when global_step has reached the bound on an accumulation
\* boundary; no batch is pulled once the bound is reached.
C6_DoneAtMaxSteps ==
    /\ (pc = "done" /\ trainer.max_steps # NoMaxSteps /\ ~should_stop
            /\ trainer.dataloader_len > 0
            /\ ~(batch_idx = trainer.num_training_batches \/ is_last_batch))
       => (done <=> (global_step >= trainer.max_steps
                       /\ (batch_idx + 1) % trainer.accumulate_grad_batches = 0))
    /\ (pc = "advance" /\ trainer.max_steps # NoMaxSteps)
       => ~(global_step >= trainer.max_steps
              /\ (batch_idx + 1) % trainer.accumulate_grad_batches = 0)

\* C7: once should_stop is set the next evaluation of done is true and no batch
\* is pulled any more; a batch whose advance has returned still gets its whole
\* on_advance_end before the loop stops.
C7_StopBetweenBatches ==
    [][/\ (should_stop /\ pc = "done" /\ pc' # "done") => pc' = "on_run_end"
       /\ should_stop => (dl_pos' = dl_pos /\ pc' # "advance")
       /\ (pc = "on_advance_end" /\ pc' # "on_advance_end")
            => (pc' = "done" /\ has_trained' /\ outputs' = Append(outputs, ret))]_vars

\* should_stop alone ended the epoch, after the batch in flight was completed
C7_Witness ==
    /\ pc = "on_run_end" /\ should_stop /\ trainer.max_steps = NoMaxSteps
    /\ dl_pos = 1 /\ trainer.num_training_batches = 3 /\ trainer.dataloader_len = 3
    /\ Len(outputs) = 1 /\ has_trained

\* C8: single optimizer, one step per batch, no skip, training_epoch_end
\* overridden: after an epoch of n batches training_epoch_end is called exactly
\* once, with the n mappings (extras and loss) of the batches in order, which is
\* also what on_run_end returns.
C8_EpochEndGetsEveryBatch ==
    (pc = "finished" /\ trainer.num_optimizers = 1 /\ trainer.tbptt_steps = 1
        /\ model.training_epoch_end /\ ~SkipInEpoch
        /\ trainer.dataloader_len = trainer.num_training_batches
        /\ Len(outputs) = trainer.num_training_batches)
    => /\ Len(CallsNamed("training_epoch_end")) = 1
       /\ CallsNamed("training_epoch_end")[1].arg =
             List([b \in 1..Len(outputs) |->
                      [k |-> "dict", extra |-> <<1, 1>>, loss |-> b - 1]])
       /\ result = [k |-> "returned", v |-> CallsNamed("training_epoch_end")[1].arg]

\* C9: should_check_val_fx returns trigger /\ canCheckVal as the claim spells
\* them out, for every argument and configuration of the range.
C9_ValPredicate ==
    vargs.called =>
        LET n == vargs.batch_idx + 1
            rem_interval == IF trainer.val_check_batch = Inf THEN n
                            ELSE n % trainer.val_check_batch
            rem_total == IF trainer.num_training_batches = Inf THEN n
                         ELSE n % trainer.num_training_batches
            canCheckVal ==
                /\ trainer.enable_validation
                /\ (vargs.current_epoch + 1) % trainer.check_val_every_n_epoch = 0
            trigger ==
                \/ ~vargs.on_epoch /\ rem_interval = 0 /\ rem_total # 0
                \/ /\ vargs.on_epoch
                   /\ \/ rem_interval = 0 /\ rem_total = 0
                      \/ vargs.should_stop
                      \/ vargs.is_last_batch /\ trainer.val_check_batch = Inf
        IN  /\ vres = (trigger /\ canCheckVal)
            /\ (canCheckVal /\ trainer.val_check_batch = 10
                    /\ trainer.num_training_batches = 100)
               => /\ (vargs.batch_idx = 9 /\ ~vargs.on_epoch) => vres
                  /\ (vargs.batch_idx = 99 /\ vargs.on_epoch) => vres

\* the end-of-epoch example of the claim: batch index 99 of 100, interval 10
C9_Witness ==
    /\ vargs.called /\ vres
    /\ vargs.batch_idx = 99 /\ vargs.on_epoch /\ ~vargs.should_stop /\ ~vargs.is_last_batch
    /\ trainer.val_check_batch = 10 /\ trainer.num_training_batches = 100

\* C10: an overridden training_epoch_end is called with the processed epoch
\* outputs; a return other than None ends on_run_end with a
\* MisconfigurationException, before on_train_epoch_end and on_epoch_end are
\* dispatched and without a return value; a return of None does not.
C10_EpochEndMustReturnNone ==
    /\ (model.training_epoch_end /\ pc = "finished") => CallsNamed("training_epoch_end") # <<>>
    /\ (pc = "raised" /\ result.v = "MisconfigurationException")
          => CallsNamed("training_epoch_end") # <<>>
    /\ (pc \in {"finished", "raised"} /\ CallsNamed("training_epoch_end") # <<>>)
          => /\ model.training_epoch_end
             /\ Len(CallsNamed("training_epoch_end")) = 1
             /\ CallsNamed("training_epoch_end")[1].arg = ProcessedOutputs
             /\ IF CallsNamed("training_epoch_end returned")[1].arg # NoneV
                THEN /\ pc = "raised"
                     /\ result = [k |-> "raised", v |-> "MisconfigurationException"]
                     /\ calls[Len(calls)].ev = "training_epoch_end returned"
                     /\ \A name \in {"trainer.on_train_epoch_end", "model.on_train_epoch_end",
                                     "accelerator.on_train_epoch_end", "on_epoch_end"} :
                           CallsNamed(name) = <<>>
                ELSE /\ pc = "finished"
                     /\ result = [k |-> "returned", v |-> ProcessedOutputs]
                     /\ calls[Len(calls)].ev = "on_epoch_end"

C10_Witness ==
    /\ pc = "raised" /\ result = [k |-> "raised", v |-> "MisconfigurationException"]
    /\ CallsNamed("training_epoch_end") # <<>> /\ Len(outputs) = 2

\* position of the first call of the latest handler that has the given name
PositionOf(name) == CHOOSE i \in 1..Len(calls) : calls[i].ev = name

\* on_run_end got as far as dispatching on_train_epoch_end
Dispatched == pc = "finished"

\* C11: in a dispatch of on_train_epoch_end the trainer's hook, if there is
\* one, is called first; then the model's override if the model overrides
\* the hook; the accelerator's hook only if the model has no override. The hooks
\* of model and accelerator are never both called, and each hook at most once.
C11_EpochEndHookOrder ==
    Dispatched =>
        LET t == CallsNamed("trainer.on_train_epoch_end")
            m == CallsNamed("model.on_train_epoch_end")
            a == CallsNamed("accelerator.on_train_epoch_end")
        IN  /\ Len(t) = (IF trainer.has_hook THEN 1 ELSE 0)
            /\ Len(m) = (IF model.on_train_epoch_end THEN 1 ELSE 0)
            /\ Len(a) = (IF ~model.on_train_epoch_end /\ trainer.accelerator_has_hook
                         THEN 1 ELSE 0)
            /\ ~(m # <<>> /\ a # <<>>)
            /\ (t # <<>> /\ m # <<>>)
                  => PositionOf("trainer.on_train_epoch_end")
                         < PositionOf("model.on_train_epoch_end")
            /\ (t # <<>> /\ a # <<>>)
                  => PositionOf("trainer.on_train_epoch_end")
                         < PositionOf("accelerator.on_train_epoch_end")

\* trainer, model and accelerator all have the hook: the accelerator's is left out
C11_Witness ==
    /\ Dispatched /\ trainer.has_hook /\ trainer.accelerator_has_hook
    /\ model.on_train_epoch_end /\ model.outputs_in_signature
    /\ CallsNamed("model.on_train_epoch_end") # <<>>
    /\ CallsNamed("accelerator.on_train_epoch_end") = <<>>

\* the optimizer whose Results an entry of a processed output was made of
RECURSIVE OptimizerOf(_)
OptimizerOf(entry) ==
    IF entry.k = "dict" THEN entry.extra[1] ELSE OptimizerOf(entry.v[1])

\* the optimizers of an input of _prepare_outputs that have an output, in order
Survivors(outs) ==
    LET F[i \in 0..Len(outs.v)] ==
            IF i = 0 THEN <<>>
            ELSE IF outs.v[i] = EmptyList THEN F[i - 1] ELSE Append(F[i - 1], i)
    IN  F[Len(outs.v)]

\* _prepare_outputs was called on outputs of the documented shape
Prepared == vargs.called /\ ~vargs.fed_back /\ vres.k = "returned"

\* C12: _prepare_outputs drops the optimizer entries that are empty and keeps
\* the others in their order: the result has one entry per optimizer with an
\* output (the entry itself when there is one such optimizer), none of them
\* empty; of 3 optimizers with the second one empty, the first and the third.
C12_EmptyOptimizersDropped ==
    Prepared =>
        LET kept == Survivors(vargs.outputs)
        IN  /\ Len(kept) = 0 => vres.v = EmptyList
            /\ Len(kept) = 1 => vres.v # EmptyList /\ OptimizerOf(vres.v) = kept[1]
            /\ Len(kept) > 1 =>
                  /\ Len(vres.v.v) = Len(kept)
                  /\ \A j \in 1..Len(kept) :
                        vres.v.v[j] # EmptyList /\ OptimizerOf(vres.v.v[j]) = kept[j]
            /\ (Len(vargs.outputs.v) = 3 /\ kept = <<1, 3>>) =>
                  /\ Len(vres.v.v) = 2
                  /\ OptimizerOf(vres.v.v[1]) = 1
                  /\ OptimizerOf(vres.v.v[2]) = 3

\* three optimizers over an epoch, the second one without any batch
C12_Witness ==
    /\ Prepared /\ ~vargs.batch_mode
    /\ Len(vargs.outputs.v) = 3 /\ Survivors(vargs.outputs) = <<1, 3>>
    /\ Len(vargs.outputs.v[1].v) = 2 /\ Len(vargs.outputs.v[3].v) = 1
    /\ Len(vres.v.v) = 2

\* the result of an epoch of one optimizer with one step per batch was given
\* to _prepare_outputs again
CollapsedFedBack ==
    /\ vargs.called /\ vargs.fed_back /\ ~vargs.batch_mode
    /\ Len(vargs.outputs.v) = 1
    /\ Len(vargs.outputs.v[1].v) > 0
    /\ Len(vargs.outputs.v[1].v[1].v) = 1

\* C13: the collapsed result of one optimizer with one step per batch, given to
\* _prepare_outputs again in epoch mode, comes back as it went in.
C13_PrepareOutputsIdempotent ==
    CollapsedFedBack => vres = [k |-> "returned", v |-> vargs.collapsed]

\* C14: under manual optimization with a training_step whose return value is
\* neither a Tensor, a dict with extras, nor None, a run over a dataloader that
\* has a batch (and that nothing stops before its first batch) ends with a
\* MisconfigurationException raised by the first batch:
\* the batch gets no batch-end hook and no on_advance_end, and no epoch end
\* follows.
C14_InvalidStepOutputRaises ==
    (model.invalid_manual_step /\ trainer.dataloader_len > 0 /\ ~should_stop)
    => /\ pc \notin {"on_advance_end", "finished"}
       /\ pc = "raised" =>
             /\ result = [k |-> "raised", v |-> "MisconfigurationException"]
             /\ dl_pos = 1 /\ outputs = <<>> /\ ~has_trained
             /\ Len(calls) = 1 /\ calls[1].ev = "batch_loop.run"

\* a step of on_advance_end
OnAdvanceEndStep == pc = "on_advance_end" /\ pc' = "done"

\* C15: in every on_advance_end the schedulers are updated if and only if the
\* global step advances, each at most once and the update first; both happen
\* exactly for a batch that is an accumulation boundary or at which the batch
\* index has reached the number of training batches.
C15_LrUpdateWithGlobalStep ==
    [][OnAdvanceEndStep =>
         LET lr == CallsNamed("update_learning_rates")'
             gs == CallsNamed("update_global_step")'
             boundary == \/ (batch_idx + 1) % trainer.accumulate_grad_batches = 0
                         \/ batch_idx = trainer.num_training_batches
         IN  /\ Len(lr) = Len(gs) /\ Len(lr) <= 1
             /\ Len(lr) = 1 <=> boundary
             /\ global_step' = global_step + Len(gs)
             /\ Len(lr) = 1 =>
                   PositionOf("update_learning_rates")' < PositionOf("update_global_step")'
       ]_vars

\* the first of two accumulated batches got neither, the second one both
C15_Witness ==
    /\ pc = "done" /\ trainer.accumulate_grad_batches = 2 /\ batch_idx = 1
    /\ global_step = 1 /\ current_epoch = 0
    /\ CallsNamed("update_learning_rates") # <<>>
    /\ CallsNamed("update_global_step") # <<>>

\* C16: when the validation predicate of on_advance_end holds, the trainer is
\* set to validating, then the evaluation loop runs, then the trainer is set
\* back to training, all before the logger flush, the scheduler update and the
\* advance of the global step of that batch; when it does not hold, no
\* evaluation runs and the phase is not touched. After on_advance_end the
\* trainer is in its training phase.
C16_ValidationPhase ==
    [][OnAdvanceEndStep =>
         LET n == batch_idx + 1
             predicate ==
                 /\ n % trainer.val_check_batch = 0
                 /\ n % trainer.num_training_batches # 0
                 /\ trainer.enable_validation
                 /\ (current_epoch + 1) % trainer.check_val_every_n_epoch = 0
             phases == {"validating", "_run_evaluation", "training"}
         IN  /\ phase' = "training"
             /\ IF predicate
                THEN /\ Len(calls') >= 3
                     /\ calls'[1].ev = "validating"
                     /\ calls'[2].ev = "_run_evaluation"
                     /\ calls'[3].ev = "training"
                     /\ \A i \in 4..Len(calls') : calls'[i].ev \notin phases
                ELSE /\ \A i \in 1..Len(calls') : calls'[i].ev \notin phases
                     /\ phase' = phase
       ]_vars

\* a batch with validation, a logger flush, a scheduler update and a step
C16_Witness ==
    /\ pc = "done" /\ phase = "training" /\ Len(calls) = 6
    /\ calls[2].ev = "_run_evaluation" /\ calls[4].ev = "logger.save"
    /\ calls[6].ev = "update_global_step"

\* advance has just handled a batch that did not carry the skip signal
BatchHandled ==
    /\ pc \in {"on_advance_end", "raised"}
    /\ calls # <<>> /\ calls[1].ev = "batch_loop.run"
    /\ calls[1].arg.k = "signal" /\ calls[1].arg.v # SkipSignal

\* what BatchLoop returned for that batch, per optimizer
HandledOutput == calls[1].arg.out

\* the output of optimizer o is in some bucket of the epoch output
Retained(epoch_output, o) ==
    \E i \in 1..Len(epoch_output.v) : \E j \in 1..Len(epoch_output.v[i].v) :
        epoch_output.v[i].v[j] = HandledOutput[o]

\* C17: after a batch the output of an optimizer is in the epoch output if and
\* only if its last step result is flagged for reduction at the end of the epoch
\* or the model overrides training_epoch_end or on_train_epoch_end; when
\* neither holds the epoch output stays empty.
C17_RetainedIffReducedOrOverridden ==
    BatchHandled =>
        LET wanted == \/ trainer.reduce
                      \/ model.training_epoch_end
                      \/ model.on_train_epoch_end
        IN  /\ pc = "on_advance_end"
            /\ \A o \in 1..trainer.num_optimizers :
                  HandledOutput[o] # EmptyList => (Retained(ret, o) <=> wanted)
            /\ ~wanted => \A i \in 1..Len(ret.v) : ret.v[i] = EmptyList

\* C18: the epoch output has one bucket per optimizer, the output retained for
\* optimizer i is in bucket i and in no other, and appending never fails for
\* lack of a bucket, also when an optimizer has no output for the batch.
C18_OneBucketPerOptimizer ==
    BatchHandled =>
        /\ pc = "on_advance_end"
        /\ Len(ret.v) = trainer.num_optimizers
        /\ \A i \in 1..Len(ret.v) : \A j \in 1..Len(ret.v[i].v) :
              ret.v[i].v[j] = HandledOutput[i]

\* C19: on_run_start sets the batch index and the dataloader index to 0 and
\* the last-batch flag to false and takes a fresh dataloader iterator; it
\* changes no other field of the loop or of the trainer, so the global step and
\* total_batch_idx enter an epoch with the values the previous one left them.
C19_OnRunStartFrame ==
    [][/\ (pc = "on_run_start" /\ pc' # "on_run_start") =>
            /\ batch_idx' = 0 /\ dataloader_idx' = 0 /\ is_last_batch' = FALSE
            /\ dl_pos' = 0
            /\ UNCHANGED <<global_step, total_batch_idx, skip_remaining, has_trained,
                           should_stop, current_epoch, phase, trainer, model>>
       /\ (pc = "finished" /\ pc' = "on_run_start") =>
            UNCHANGED <<global_step, total_batch_idx>>
      ]_vars

\* the second epoch has started, with the counters the first one left: 3
\* batches, and 4 evaluations of done
C19_Witness ==
    /\ pc = "done" /\ current_epoch = 1 /\ Len(outputs) = 0
    /\ batch_idx = 0 /\ dataloader_idx = 0 /\ is_last_batch = FALSE /\ dl_pos = 0
    /\ global_step = 3 /\ total_batch_idx = 4

\* C20: within an epoch the batch index never decreases, and it is 0 when the
\* epoch starts (until the first batch is pulled); total_batch_idx never
\* decreases over the whole run.
C20_IndicesMonotone ==
    [][/\ pc # "on_run_start" => batch_idx' >= batch_idx
       /\ (pc = "on_run_start" /\ pc' # "on_run_start") => batch_idx' = 0
       /\ (pc' \in {"done", "advance"} /\ dl_pos' = 0) => batch_idx' = 0
       /\ total_batch_idx' >= total_batch_idx
      ]_vars

\* the second batch of the second epoch
C20_Witness ==
    /\ pc = "on_advance_end" /\ current_epoch = 1 /\ batch_idx = 1 /\ dl_pos = 2
    /\ total_batch_idx = 6 /\ trainer.num_training_batches = 3
    /\ trainer.dataloader_len = 3

====
